---- MODULE Spec2Model ----
(***************************************************************************)
(* The "Block Party" block of src/src/block/block.js: the attribute        *)
(* record, the editor controls that update it, and the two renderers       *)
(* (edit, save) that map it to an element tree.                            *)
(*                                                                         *)
(* A JavaScript value that may be undefined is a sequence of length at     *)
(* most one: << >> is undefined, <<v>> is the value v.                     *)
(* An element is a record [tag, classes, attrs, kids]: classes is the      *)
(* className as the sequence of its class names, attrs the set of          *)
(* <<name, value>> pairs of the props that are defined, kids the children  *)
(* in document order.  A rich-text node of content is an element too: a    *)
(* text node, or an element node such as an inline image.                  *)
(***************************************************************************)
EXTENDS Naturals, Sequences, FiniteSets

VARIABLES attributes, isSelected, last

vars == <<attributes, isSelected, last>>

(* ------------------------------ bounds -------------------------------- *)

\* Media-library identifiers are 1..MaxId.
MaxId == 2

\* The content attribute holds at most MaxContentLen rich-text nodes.
MaxContentLen == 1

(* ------------------------- JavaScript values -------------------------- *)

Undefined == << >>

Def(v) == <<v>>

Val(m) == m[1]

\* ToBoolean of a string-or-undefined value: undefined and "" are falsy.
Truthy(m) == m /= Undefined /\ Val(m) /= ""

\* Template-literal interpolation of a string-or-undefined value.
Interpolate(m) == IF m = Undefined THEN "undefined" ELSE Val(m)

(* ------------------------------ elements ------------------------------ *)

Element(tag, classes, attrs, kids) ==
    [tag |-> tag, classes |-> classes, attrs |-> attrs, kids |-> kids]

Text(s) == Element("#text", << >>, {<<"data", s>>}, << >>)

\* A prop whose value is undefined is left out of the element.
Prop(name, m) == IF m = Undefined THEN {} ELSE {<<name, Val(m)>>}

RECURSIVE MediaOfSeq(_)
RECURSIVE MediaOf(_)

\* The img and video elements of a tree, in document order, each as its
\* tag and its src.
MediaOf(el) ==
    (IF el.tag \in {"img", "video"}
        THEN << [tag |-> el.tag,
                 src |-> IF \E p \in el.attrs : p[1] = "src"
                            THEN Def((CHOOSE p \in el.attrs : p[1] = "src")[2])
                            ELSE Undefined] >>
        ELSE << >>)
    \o MediaOfSeq(el.kids)

MediaOfSeq(els) ==
    IF els = << >> THEN << >> ELSE MediaOf(Head(els)) \o MediaOfSeq(Tail(els))

\* The element that holds the rich-text content: the p of save, the
\* RichText of edit.
IsContentHolder(el) == el.tag \in {"p", "RichText"}

IsNotContentHolder(el) == ~IsContentHolder(el)

\* The img and video elements a renderer itself puts in the tree it
\* returned: those outside the rich-text content.
BlockMediaOf(tree) ==
    IF tree = << >> THEN << >> ELSE MediaOfSeq(SelectSeq(tree[1].kids, IsNotContentHolder))

ClassSet(classes) == {classes[i] : i \in 1..Len(classes)}

\* classnames(): the keys whose value is truthy, in order.
RECURSIVE classnames(_)
classnames(pairs) ==
    IF pairs = << >> THEN << >>
    ELSE (IF Head(pairs).on THEN <<Head(pairs).key>> ELSE << >>)
         \o classnames(Tail(pairs))

(* ------------------------------ the theme ----------------------------- *)

\* The colour palette the host editor offers (the theme's colours).
Colors ==
    { [slug |-> "vivid-red", color |-> "#cf2e2e"],
      [slug |-> "paleBlue", color |-> "#8ed1fc"] }

\* A slug stored under an earlier theme, no longer in the palette.
StaleSlug == "old-teal"

CustomColor == "#123456"

\* lodash kebabCase on the slugs of the model.
kebabCase(s) == IF s = "paleBlue" THEN "pale-blue" ELSE s

\* wp.editor getColorClassName( colorContextName, colorSlug ).
getColorClassName(colorContextName, colorSlug) ==
    IF colorContextName = "" \/ ~Truthy(colorSlug)
        THEN Undefined
        ELSE Def("has-" \o kebabCase(Val(colorSlug)) \o "-" \o colorContextName)

(* --------------------------- the attributes --------------------------- *)

AttributeNames ==
    {"content", "imgId", "imgUrl", "mediaType", "backgroundColor",
     "customBackgroundColor", "extras", "contentAlign"}

\* A freshly inserted block: extras defaults to true, the rest is unset
\* (content has no nodes).
DefaultAttributes ==
    [content |-> << >>, imgId |-> Undefined, imgUrl |-> Undefined,
     mediaType |-> Undefined, backgroundColor |-> Undefined,
     customBackgroundColor |-> Undefined, extras |-> TRUE,
     contentAlign |-> Undefined]

\* What the rich-text field can hold: sequences of rich-text nodes, each a
\* text node or an element node ({ type, props }); here a text, an inline
\* image of its own, and an inline image of a file the picker also offers.
ContentNodes ==
    { Text("Hello"),
      Element("img", << >>, {<<"src", "inline.png">>}, << >>),
      Element("img", << >>, {<<"src", "a.png">>}, << >>) }

RECURSIVE SeqsUpTo(_, _)
SeqsUpTo(S, n) ==
    IF n = 0 THEN {<< >>}
    ELSE SeqsUpTo(S, n - 1)
         \cup {Append(q, x) : q \in {r \in SeqsUpTo(S, n - 1) : Len(r) = n - 1}, x \in S}

Contents == SeqsUpTo(ContentNodes, MaxContentLen)

Ids == {Def(i) : i \in 1..MaxId}

Urls == {Def("a.png"), Def("b.mp4")}

Alignments == {Undefined, Def("left"), Def("center")}

\* What the media picker hands to onSelect: url and id, and media_type (a
\* fresh upload, from the REST API) or type (an item of the media library).
\* allowedTypes filters what the library lists, not what an upload in the
\* picker adds to the selection, so type may be neither image nor video.
Selections ==
    { media \in [url : Urls,
                 id : Ids,
                 media_type : {Undefined, Def(""), Def("image"), Def("file")},
                 type : {Undefined, Def("image"), Def("video"), Def("audio")}] :
        Truthy(media.media_type) \/ media.type /= Undefined }

\* Every attribute record the host can hand to edit and save, as parsed
\* from stored content: each attribute is free within its declared type.
AnyAttributes ==
    [content : Contents,
     imgId : {Undefined} \cup Ids,
     imgUrl : {Undefined} \cup Urls,
     mediaType : {Undefined, Def("image"), Def("video"), Def("audio"),
                  Def("__proto__"), Def("toString")},
     backgroundColor : {Undefined, Def(StaleSlug)} \cup {Def(c.slug) : c \in Colors},
     customBackgroundColor : {Undefined, Def(CustomColor)},
     extras : BOOLEAN,
     contentAlign : Alignments]

(* ----------------------------- the controls --------------------------- *)

\* setAttributes( partial ): the host merges the partial update into the
\* record.
setAttributes(attrs, partial) ==
    [k \in DOMAIN attrs |-> IF k \in DOMAIN partial THEN partial[k] ELSE attrs[k]]

\* onUploadImage without the "anything else is a video" branch: a
\* media_type other than "image" falls through to the type field.
onUploadImage_TypeFallback(media) ==
    [imgUrl |-> media.url,
     imgId |-> media.id,
     mediaType |->
        IF media.media_type = Def("image") THEN Def("image") ELSE media.type]

\* onUploadImage( media ): the partial update of a media selection.
onUploadImage(media) ==
    [imgUrl |-> media.url,
     imgId |-> media.id,
     mediaType |->
        IF Truthy(media.media_type)
            THEN (IF media.media_type = Def("image") THEN Def("image") ELSE Def("video"))
            ELSE media.type]

\* The extras toggle writing back the value it shows (!! for !).
onToggleExtras_NoNegation(attrs) == [extras |-> attrs.extras]

\* The extras toggle's onChange.
onToggleExtras(attrs) == [extras |-> ~attrs.extras]

\* The alignment toolbar's onChange.
onChangeAlignment(nextContentAlign) == [contentAlign |-> nextContentAlign]

\* The rich-text field's onChange.
onChangeContent(content) == [content |-> content]

\* setBackgroundColor( colorValue ), made by withColors: a palette colour
\* is stored by its slug, any other colour as the custom colour.
setBackgroundColor(colorValue) ==
    LET found == {c \in Colors : colorValue = Def(c.color)}
    IN  IF found /= {}
            THEN [backgroundColor |-> Def((CHOOSE c \in found : TRUE).slug),
                  customBackgroundColor |-> Undefined]
            ELSE [backgroundColor |-> Undefined,
                  customBackgroundColor |-> colorValue]

\* The colours the colour picker can report: none, a palette colour, a
\* custom colour.
ColorValues == {Undefined, Def(CustomColor)} \cup {Def(c.color) : c \in Colors}

(* ----------------------------- the renderers -------------------------- *)

\* What a renderer yields: the root element, or nothing when it threw.
Rendered(root) == [threw |-> FALSE, tree |-> <<root>>]

Thrown == [threw |-> TRUE, tree |-> << >>]

img(src) == Element("img", << >>, Prop("src", src), << >>)

video(src) == Element("video", << >>, {<<"controls", "true">>} \cup Prop("src", src), << >>)

\* The host-supplied class of the block's wrapper.
className == "wp-block-cgb-block-cgb-hello-gutenberg"

\* The footer of the editor tree.
EditFooter ==
    Element("div", << >>, {},
        << Element("p", << >>, {}, <<Text("\\u2014 Hello from the bssackend.")>>),
           Element("p", << >>, {},
               << Text("CGB BLOCK: "),
                  Element("code", << >>, {}, <<Text("cgb-hello-gutenberg")>>),
                  Text(" is a new Gutenberg block") >>) >>)

\* The footer of the saved markup.
SaveFooter ==
    Element("div", << >>, {},
        << Element("p", << >>, {},
               << Text("CGB BLOCK: "),
                  Element("code", << >>, {}, <<Text("cgb-hello-gutenberg")>>),
                  Text(" is a new Gutenberg block.") >>),
           Element("p", << >>, {},
               << Text("It was created via"),
                  Text(" "),
                  Element("code", << >>, {},
                      << Element("a", << >>,
                             {<<"href", "https://github.com/ahmadawais/create-guten-block">>},
                             <<Text("create-guten-block")>>) >>),
                  Text(".") >>) >>)

\* mediaTypeRenders with the video entry a copy of the image entry.
renderMedia_ImageForBoth(attrs) ==
    LET key == Interpolate(attrs.mediaType)
    IN  CASE key \in {"image", "video"} -> [threw |-> FALSE, kids |-> <<img(attrs.imgUrl)>>]
          [] key = "__proto__" -> [threw |-> TRUE, kids |-> << >>]
          [] key = "toString" -> [threw |-> FALSE, kids |-> <<Text("[object Undefined]")>>]
          [] OTHER -> [threw |-> FALSE, kids |-> << >>]

\* ( mediaTypeRenders[ mediaType ] || noop )(): the children it yields, or
\* the throw.  mediaTypeRenders is an object literal with the own keys image
\* and video; any other key is looked up on Object.prototype, where
\* __proto__ is the prototype object itself (truthy, not callable: the call
\* throws a TypeError) and toString is a function (called without this, it
\* returns "[object Undefined]"); a key found nowhere gives noop.
renderMedia(attrs) ==
    LET key == Interpolate(attrs.mediaType)
    IN  CASE key = "image" -> [threw |-> FALSE, kids |-> <<img(attrs.imgUrl)>>]
          [] key = "video" -> [threw |-> FALSE, kids |-> <<video(attrs.imgUrl)>>]
          [] key = "__proto__" -> [threw |-> TRUE, kids |-> << >>]
          [] key = "toString" -> [threw |-> FALSE, kids |-> <<Text("[object Undefined]")>>]
          [] OTHER -> [threw |-> FALSE, kids |-> << >>]

\* save: classes.
saveClasses(attrs) ==
    LET backgroundClass == getColorClassName("background-color", attrs.backgroundColor)
    IN  classnames(
            << [key |-> "has-background",
                on |-> Truthy(attrs.backgroundColor) \/ Truthy(attrs.customBackgroundColor)],
               [key |-> Interpolate(backgroundClass), on |-> Truthy(backgroundClass)],
               [key |-> "has-" \o Interpolate(attrs.contentAlign) \o "-content",
                on |-> Truthy(attrs.contentAlign)] >>)

\* save: styles.
saveStyles(attrs) ==
    LET backgroundClass == getColorClassName("background-color", attrs.backgroundColor)
    IN  Prop("style.backgroundColor",
             IF Truthy(backgroundClass) THEN Undefined ELSE attrs.customBackgroundColor)
        \cup Prop("style.textAlign", attrs.contentAlign)

\* save( props ).
save(attrs) ==
    LET media == renderMedia(attrs)
    IN  IF media.threw
            THEN Thrown
            ELSE Rendered(
                    Element("div", saveClasses(attrs), saveStyles(attrs),
                        media.kids
                        \o <<Element("p", << >>, {}, attrs.content)>>
                        \o (IF attrs.extras THEN <<SaveFooter>> ELSE << >>)))

\* withColors( 'backgroundColor' ): the backgroundColor prop of edit, the
\* palette colour of the slug if the palette has it, else the custom colour.
withColors(attrs) ==
    LET found == {c \in Colors : attrs.backgroundColor = Def(c.slug)}
    IN  IF Truthy(attrs.backgroundColor) /\ found /= {}
            THEN LET c == CHOOSE c \in found : TRUE
                 IN  [color |-> Def(c.color),
                      class |-> getColorClassName("background-color", Def(c.slug))]
            ELSE [color |-> attrs.customBackgroundColor,
                  class |-> getColorClassName("background-color", Undefined)]

\* edit: classes.
editClasses(attrs) ==
    LET backgroundColor == withColors(attrs)
    IN  classnames(
            << [key |-> className, on |-> TRUE],
               [key |-> Interpolate(backgroundColor.class), on |-> Truthy(backgroundColor.class)],
               [key |-> "has-" \o Interpolate(attrs.contentAlign) \o "-content",
                on |-> Truthy(attrs.contentAlign)] >>)

\* edit: styles.
editStyles(attrs) ==
    Prop("style.backgroundColor", withColors(attrs).color)
    \cup Prop("style.textAlign", attrs.contentAlign)

\* getMedia( mediaType ) of edit.
getMedia(attrs) ==
    IF attrs.mediaType = Def("image") THEN img(attrs.imgUrl) ELSE video(attrs.imgUrl)

\* The controls edit shows while the block is selected.
editControls(attrs) ==
    << Element("InspectorControls", << >>, {},
           << Element("PanelBody", << >>,
                  {<<"title", "Party Settings">>, <<"initialOpen", "false">>},
                  << Element("ToggleControl", << >>,
                         { <<"label", "View Extras">>,
                           <<"checked", IF attrs.extras THEN "true" ELSE "false">>,
                           <<"help", IF attrs.extras THEN "Showing the extras."
                                                     ELSE "Toggle to show the extras.">> },
                         << >>) >>),
              Element("PanelColorSettings", << >>,
                  { <<"title", "Color Settings">>, <<"initialOpen", "false">>,
                    <<"label", "Background Color">> }
                  \cup Prop("value", withColors(attrs).color),
                  << >>) >>),
       Element("BlockControls", << >>, {},
           << Element("AlignmentToolbar", << >>, Prop("value", attrs.contentAlign), << >>) >>) >>

\* The media-pick control of edit: MediaUploadCheck (the host shows its
\* children only to a user who may upload) around MediaUpload, whose render
\* prop yields the button with the placeholder icon or the media.
editMediaUpload(attrs) ==
    Element("MediaUploadCheck", << >>, {},
        << Element("MediaUpload", << >>,
               {<<"allowedTypes", "image">>, <<"allowedTypes", "video">>}
               \cup Prop("value", attrs.imgUrl),
               << Element("Button", << >>, {},
                      << IF ~Truthy(attrs.imgUrl)
                             THEN Element("Dashicon", << >>, {<<"icon", "format-image">>}, << >>)
                             ELSE getMedia(attrs) >>) >>) >>)

\* edit( props ).
edit(attrs, selected) ==
    Rendered(
        Element("div", editClasses(attrs), editStyles(attrs),
            (IF selected THEN editControls(attrs) ELSE << >>)
            \o <<editMediaUpload(attrs)>>
            \o << Element("RichText", <<className>>, {<<"tagName", "p">>},
                      attrs.content) >>
            \o (IF attrs.extras THEN <<EditFooter>> ELSE << >>)))

(* --------------------------- the state machine ------------------------ *)

\* last records the latest operation: its name, its argument, and what a
\* renderer returned.
Event(op, arg) == [op |-> op, arg |-> arg, out |-> [threw |-> FALSE, tree |-> << >>]]

Init ==
    /\ attributes = DefaultAttributes
    /\ isSelected = FALSE
    /\ last = Event("insert", << >>)

\* The user selects the block (the host sets isSelected).
SelectBlock ==
    /\ ~isSelected
    /\ isSelected' = TRUE
    /\ last' = Event("select", << >>)
    /\ UNCHANGED attributes

\* The user selects something else.
DeselectBlock ==
    /\ isSelected
    /\ isSelected' = FALSE
    /\ last' = Event("deselect", << >>)
    /\ UNCHANGED attributes

\* MediaUpload onSelect.
SelectMedia ==
    \E media \in Selections :
        /\ attributes' = setAttributes(attributes, onUploadImage(media))
        /\ last' = Event("media", media)
        /\ UNCHANGED isSelected

\* ToggleControl onChange.
ToggleExtras ==
    /\ isSelected
    /\ attributes' = setAttributes(attributes, onToggleExtras(attributes))
    /\ last' = Event("extras", << >>)
    /\ UNCHANGED isSelected

\* PanelColorSettings onChange.
PickColor ==
    /\ isSelected
    /\ \E colorValue \in ColorValues :
        /\ attributes' = setAttributes(attributes, setBackgroundColor(colorValue))
        /\ last' = Event("color", colorValue)
    /\ UNCHANGED isSelected

\* AlignmentToolbar onChange.
PickAlignment ==
    /\ isSelected
    /\ \E nextContentAlign \in Alignments :
        /\ attributes' = setAttributes(attributes, onChangeAlignment(nextContentAlign))
        /\ last' = Event("align", nextContentAlign)
    /\ UNCHANGED isSelected

\* RichText onChange.
EditContent ==
    \E content \in Contents :
        /\ attributes' = setAttributes(attributes, onChangeContent(content))
        /\ last' = Event("content", content)
        /\ UNCHANGED isSelected

\* The host renders the block in the editor.
RenderEdit ==
    /\ last' = [op |-> "edit", arg |-> << >>, out |-> edit(attributes, isSelected)]
    /\ UNCHANGED <<attributes, isSelected>>

\* The host serializes the block.
RenderSave ==
    /\ last' = [op |-> "save", arg |-> << >>, out |-> save(attributes)]
    /\ UNCHANGED <<attributes, isSelected>>

Next ==
    \/ SelectBlock
    \/ DeselectBlock
    \/ SelectMedia
    \/ ToggleExtras
    \/ PickColor
    \/ PickAlignment
    \/ EditContent
    \/ RenderEdit
    \/ RenderSave

\* The editor session, from a freshly inserted block.
Spec == Init /\ [][Next]_vars

\* The renderers on any attribute record.
InitAny ==
    /\ attributes \in AnyAttributes
    /\ isSelected \in BOOLEAN
    /\ last = Event("load", << >>)

NextAny ==
    \/ RenderEdit
    \/ RenderSave

SpecAny == InitAny /\ [][NextAny]_vars

(* ------------------------------- claims -------------------------------- *)

ImageOrVideo == {Def("image"), Def("video")}

\* C1, as stated: after a media selection, mediaType is "image" for
\* media_type "image", "video" for any other media_type, and the value of
\* type when the selection has no media_type but has a type; imgUrl and
\* imgId are the selection's url and id.
C1_AsStated ==
    last.op = "media" =>
        LET media == last.arg
        IN  /\ attributes.imgUrl = media.url
            /\ attributes.imgId = media.id
            /\ media.media_type = Def("image") => attributes.mediaType = Def("image")
            /\ (media.media_type /= Undefined /\ media.media_type /= Def("image"))
                    => attributes.mediaType = Def("video")
            /\ (media.media_type = Undefined /\ media.type /= Undefined)
                    => attributes.mediaType = media.type

\* C1, amended: after a media selection, mediaType is "image" for
\* media_type "image", "video" for any other non-empty media_type, and the
\* value of type when media_type is absent or empty; imgUrl and imgId are
\* the selection's url and id.
C1_MediaTypeOfSelection ==
    last.op = "media" =>
        LET media == last.arg
        IN  /\ attributes.imgUrl = media.url
            /\ attributes.imgId = media.id
            /\ media.media_type = Def("image") => attributes.mediaType = Def("image")
            /\ (media.media_type \notin {Undefined, Def(""), Def("image")})
                    => attributes.mediaType = Def("video")
            /\ (media.media_type \in {Undefined, Def("")})
                    => attributes.mediaType = media.type

C1_Witness ==
    /\ last.op = "media"
    /\ last.arg.media_type = Def("file")
    /\ last.arg.type = Def("image")
    /\ attributes.mediaType = Def("video")
    /\ attributes.imgUrl = Def("b.mp4")

\* C2, as stated: the output of save for a record with mediaType "image"
\* and imgUrl set contains exactly one img element whose src is imgUrl and
\* no video element; with mediaType "video", exactly one video element
\* whose src is imgUrl and no img element.
C2_AsStated ==
    (/\ last.op = "save"
     /\ attributes.mediaType \in ImageOrVideo
     /\ attributes.imgUrl /= Undefined)
        => /\ ~last.out.threw
           /\ LET found == MediaOfSeq(last.out.tree)
                  tag == IF attributes.mediaType = Def("image") THEN "img" ELSE "video"
              IN  /\ Cardinality({i \in 1..Len(found) :
                                    found[i] = [tag |-> tag, src |-> attributes.imgUrl]}) = 1
                  /\ \A i \in 1..Len(found) : found[i].tag = tag

\* C2, amended: outside the rich-text content, the output of save for a
\* record with mediaType "image" and imgUrl set contains exactly one img
\* element, its src being imgUrl, and no video element; with mediaType
\* "video", exactly one video element with that src and no img element.
\* (The content paragraph may hold further img elements of its own.)
C2_OneMediaElement ==
    (/\ last.op = "save"
     /\ attributes.mediaType \in ImageOrVideo
     /\ attributes.imgUrl /= Undefined)
        => /\ ~last.out.threw
           /\ BlockMediaOf(last.out.tree)
                = << [tag |-> IF attributes.mediaType = Def("image") THEN "img" ELSE "video",
                      src |-> attributes.imgUrl] >>

C2_Witness ==
    /\ last.op = "save"
    /\ attributes.mediaType = Def("video")
    /\ attributes.imgUrl = Def("b.mp4")
    /\ attributes.content /= << >>
    /\ attributes.content[1].tag = "img"
    /\ BlockMediaOf(last.out.tree) = << [tag |-> "video", src |-> Def("b.mp4")] >>
    /\ Len(MediaOfSeq(last.out.tree)) = 2

\* C3: save of a record whose mediaType is neither "image" nor "video"
\* (absent included) renders no media element of its own and signals no
\* error.
C3_UnknownMediaTypeOmitted ==
    (last.op = "save" /\ attributes.mediaType \notin ImageOrVideo)
        => /\ ~last.out.threw
           /\ BlockMediaOf(last.out.tree) = << >>

\* C4: when backgroundColor resolves to a class, the saved inline style has
\* no background colour and the class is in the class set; when it does
\* not resolve, the inline background colour is customBackgroundColor.
C4_ClassBeforeCustomColor ==
    last.op = "save" =>
        LET backgroundClass == getColorClassName("background-color", attributes.backgroundColor)
        IN  /\ ~last.out.threw
            /\ LET root == last.out.tree[1]
               IN  IF backgroundClass /= Undefined
                       THEN /\ ~ \E p \in root.attrs : p[1] = "style.backgroundColor"
                            /\ Val(backgroundClass) \in ClassSet(root.classes)
                       ELSE Prop("style.backgroundColor", attributes.customBackgroundColor)
                                \subseteq root.attrs
                            /\ \A p \in root.attrs : p[1] = "style.backgroundColor"
                                    => attributes.customBackgroundColor = Def(p[2])

\* C5: the saved output contains the footer exactly when extras is true,
\* whatever the other attributes.
C5_FooterIffExtras ==
    last.op = "save" =>
        /\ ~last.out.threw
        /\ attributes.extras
            <=> \E i \in 1..Len(last.out.tree[1].kids) : last.out.tree[1].kids[i] = SaveFooter

\* C7: when imgUrl is absent neither edit nor save renders a media element
\* of its own, whatever mediaType is.
C7_NoUrlNoMedia ==
    (last.op \in {"edit", "save"} /\ attributes.imgUrl = Undefined)
        => BlockMediaOf(last.out.tree) = << >>

\* C8: the class set of the saved outer div equals the class set of the
\* editor's outer div, the host-supplied className left aside.
C8_SameClassSet ==
    last.op = "save" =>
        /\ ~last.out.threw
        /\ ClassSet(last.out.tree[1].classes)
            = ClassSet(edit(attributes, isSelected).tree[1].classes) \ {className}

\* C9: a media selection changes only imgUrl, imgId and mediaType; the
\* extras toggle only extras, to its negation; the alignment toolbar only
\* contentAlign; the rich-text field only content; the colour picker only
\* backgroundColor and customBackgroundColor; rendering, selecting and
\* deselecting change no attribute.
Frame(touched) == \A k \in AttributeNames \ touched : attributes'[k] = attributes[k]

C9_ControlsTouchOwnAttributes ==
    [][ /\ last'.op = "media" => Frame({"imgUrl", "imgId", "mediaType"})
        /\ last'.op = "extras" =>
                Frame({"extras"}) /\ attributes'.extras = ~attributes.extras
        /\ last'.op = "align" => Frame({"contentAlign"})
        /\ last'.op = "content" => Frame({"content"})
        /\ last'.op = "color" => Frame({"backgroundColor", "customBackgroundColor"})
        /\ last'.op \in {"edit", "save", "select", "deselect"} => Frame({})
      ]_vars

C9_Witness ==
    /\ last.op = "extras"
    /\ ~attributes.extras
    /\ attributes.imgUrl = Def("a.png")
    /\ attributes.mediaType = Def("image")
    /\ attributes.content /= << >>
    /\ attributes.backgroundColor /= Undefined
    /\ attributes.contentAlign = Def("center")

\* C10: in every state of an editor session, edit and save show the same
\* media (the same img, the same video, or none), and mediaType is "image"
\* or "video" whenever imgUrl is set.
C10_EditorAndSaveAgree ==
    /\ MediaOfSeq(edit(attributes, isSelected).tree) = MediaOfSeq(save(attributes).tree)
    /\ attributes.imgUrl /= Undefined => attributes.mediaType \in ImageOrVideo

====
